---- MODULE Spec2Model ----
(***************************************************************************)
(* Bookipedia: books and authors joined through an association table that  *)
(* carries a blurb.  The repository holds four variants of the same        *)
(* read-only service (with-extra-data-1..4.py); they share the tables, the *)
(* seed block, get_db and the four GET handlers, and differ in the query   *)
(* options and in how the fetched graph is shaped into the response.       *)
(*                                                                         *)
(* One behaviour of the model is one run of one variant: the module is     *)
(* imported (tables created, seed block run), then requests are served.    *)
(***************************************************************************)
EXTENDS Integers, Sequences, FiniteSets, TLC

\* ------------------------------------------------------------------ bounds
\* Number of requests that may be in flight at the same time.
NumReq == 2
\* Integer path ids a client may ask for are 1..MaxId (the seed assigns 1..2
\* to books, so id 3 matches a row of authors and none of books).
MaxId == 3
\* Sizes of the generalised seed used by SpecQ.
MaxBooks == 2
MaxAuthors == 2

\* ------------------------------------------------------------------ values
\* Python's None (an unset id on a pending object, a missing related object,
\* an Optional field without a value).
NoId == 0
PyNone == "None"

Variants == 1..4
\* The four variants and, as 5, without-extra-data-1.py, whose association
\* table carries no blurb.
AllVariants == 1..5
Slots == 1..NumReq
PathIds == 1..MaxId

Range(seq) == {seq[i] : i \in 1..Len(seq)}

\* ------------------------------------------------------------------ state
VARIABLES
    variant,        \* which of the four programs this run is
    seed_pc,        \* position of the module-level seed block
    seed_books,     \* the Book objects of the seed block: [id, title]
    seed_authors,   \* the Author objects of the seed block: [id, name]
    seed_links,     \* the BookAuthor objects to build: [book, author, blurb],
                    \* book/author being positions in seed_books/seed_authors
    books,          \* table books: sequence of [id, title] in rowid order
    authors,        \* table authors: sequence of [id, name] in rowid order
    book_authors,   \* table book_authors: [book_id, author_id, blurb], insertion order
    open_sessions,  \* Session objects created by get_db and not yet closed
    reqs            \* per slot: the request being served and where it stands

vars == <<variant, seed_pc, seed_books, seed_authors, seed_links,
          books, authors, book_authors, open_sessions, reqs>>

seedVars == <<seed_books, seed_authors, seed_links>>
tableVars == <<books, authors, book_authors>>

\* The three tables as one value.
Store == [books |-> books, authors |-> authors, book_authors |-> book_authors]

\* ------------------------------------------------------------------ seed
\* The literals of the seed block.
SeedBookObjs ==
    << [id |-> NoId, title |-> "Dead People Who'd Be Influencers Today"],
       [id |-> NoId, title |-> "How To Make Friends In Your 30s"] >>

SeedAuthorObjs ==
    << [id |-> NoId, name |-> "Blu Renolds"],
       [id |-> NoId, name |-> "Chip Egan"],
       [id |-> NoId, name |-> "Alyssa Wyatt"] >>

\* book_author1..4: (bookN, authorM, blurb).
SeedLinks ==
    << [book |-> 1, author |-> 1, blurb |-> "Blue wrote chapter 1"],
       [book |-> 1, author |-> 2, blurb |-> "Chip wrote chapter 2"],
       [book |-> 2, author |-> 1, blurb |-> "Blue wrote chapters 1-3"],
       [book |-> 2, author |-> 3, blurb |-> "Alyssa wrote chapter 4"] >>

\* INTEGER PRIMARY KEY of SQLite: the next id of a table is one more than the
\* largest id in it (1 for an empty table).
AutoIncrementFromZero(table) == Len(table)
AutoIncrement(table) ==
    IF table = << >> THEN 1
    ELSE 1 + (CHOOSE m \in {table[i].id : i \in 1..Len(table)} :
                 \A i \in 1..Len(table) : table[i].id <= m)

RECURSIVE InsertAll(_, _)
\* Flush of pending objects into a table, in add_all order: each INSERT takes
\* the table's next id.  Returns the table after the inserts.
InsertAll(table, objs) ==
    IF objs = << >> THEN table
    ELSE InsertAll(Append(table, [Head(objs) EXCEPT !.id = AutoIncrement(table)]),
                   Tail(objs))

\* After the commit the objects carry the ids of their rows.
Refreshed(table_before, table_after, objs) ==
    [i \in 1..Len(objs) |-> table_after[Len(table_before) + i]]

\* BookAuthor(book_id=bookN.id, author_id=authorM.id, blurb=...)
LinkRowNextAuthor(l, bobjs, aobjs) ==
    [book_id |-> bobjs[l.book].id, author_id |-> aobjs[l.author].id + 1, blurb |-> l.blurb]
LinkRow(l, bobjs, aobjs) ==
    [book_id |-> bobjs[l.book].id, author_id |-> aobjs[l.author].id, blurb |-> l.blurb]

\* session.add_all([book1, book2, author1, author2, author3]); session.commit()
SeedEntities ==
    /\ seed_pc = "created"
    /\ books' = InsertAll(books, seed_books)
    /\ authors' = InsertAll(authors, seed_authors)
    /\ seed_books' = Refreshed(books, books', seed_books)
    /\ seed_authors' = Refreshed(authors, authors', seed_authors)
    /\ seed_pc' = "entities"
    /\ UNCHANGED <<variant, seed_links, book_authors, open_sessions, reqs>>

\* book_author1..4 are built from the refreshed ids, added and committed.
SeedAssociations ==
    /\ seed_pc = "entities"
    /\ book_authors' = book_authors \o
          [i \in 1..Len(seed_links) |-> LinkRow(seed_links[i], seed_books, seed_authors)]
    /\ seed_pc' = "ready"
    /\ UNCHANGED <<variant, seedVars, books, authors, open_sessions, reqs>>

\* ---- the seed block of without-extra-data-1.py
\* book1.authors = [author1, author2]; book2.authors = [author1, author3],
\* set before the objects are added to the session.
SeedLinks5 ==
    << [book |-> 1, author |-> 1], [book |-> 1, author |-> 2],
       [book |-> 2, author |-> 1], [book |-> 2, author |-> 3] >>

\* A seed object: the `pos`-th book or author of the seed block.
Obj(side, pos) == [side |-> side, pos |-> pos]

\* session.add_all([book1, book2, author1, author2, author3])
AddAllList(bobjs, aobjs) ==
    [i \in 1..Len(bobjs) |-> Obj("book", i)] \o [i \in 1..Len(aobjs) |-> Obj("author", i)]

\* The objects in the relationship collection of `o`: book.authors as
\* assigned, author.books as the backref appended to it.
Collection(links, o) ==
    LET mine == SelectSeq(links, LAMBDA l : l[o.side] = o.pos)
        other == IF o.side = "book" THEN "author" ELSE "book"
    IN  [i \in 1..Len(mine) |-> Obj(other, mine[i][other])]

RECURSIVE Cascade(_, _, _, _)
\* The save-update cascade of one Session.add(): `stack` holds the queues of
\* objects still to visit, the innermost last.  The first object of the
\* innermost queue is attached; the objects of its collection that are
\* neither queued already (`visited`) nor in the session are queued and
\* visited before the rest of the current queue.  Returns the objects of
\* the session in the order they were attached.
Cascade(links, stack, visited, attached) ==
    IF stack = << >> THEN attached
    ELSE LET top == stack[Len(stack)]
             rest == SubSeq(stack, 1, Len(stack) - 1)
         IN  IF top = << >> THEN Cascade(links, rest, visited, attached)
             ELSE LET o == Head(top)
                      att == Append(attached, o)
                      kids == SelectSeq(Collection(links, o),
                                 LAMBDA c : c \notin visited /\ c \notin Range(att))
                  IN  Cascade(links,
                              Append(rest, Tail(top)) \o
                                 (IF kids = << >> THEN << >> ELSE <<kids>>),
                              visited \cup Range(kids), att)

RECURSIVE AddAll(_, _, _)
\* add_all: add() of each object in turn; an object the cascade of an
\* earlier one has attached is in the session already.
AddAll(links, objs, attached) ==
    IF objs = << >> THEN attached
    ELSE IF Head(objs) \in Range(attached) THEN AddAll(links, Tail(objs), attached)
    ELSE AddAll(links, Tail(objs), Cascade(links, << <<Head(objs)>> >>, {}, attached))

\* The pending objects of one table, in the order the flush inserts them:
\* the order in which they were attached to the session.
InsertOrder(attached, side, objs) ==
    LET mine == SelectSeq(attached, LAMBDA o : o.side = side)
    IN  [i \in 1..Len(mine) |-> objs[mine[i].pos]]

\* After the commit each object carries the id of the row its INSERT made.
RefreshedInOrder(table_before, table_after, attached, side, objs) ==
    LET mine == SelectSeq(attached, LAMBDA o : o.side = side)
    IN  [p \in 1..Len(objs) |->
           table_after[Len(table_before) + (CHOOSE i \in 1..Len(mine) : mine[i].pos = p)]]

\* A row of the secondary table book_authors: the two foreign keys only.
LinkRow5(l, bobjs, aobjs) ==
    [book_id |-> bobjs[l.book].id, author_id |-> aobjs[l.author].id]

\* The orders in which a set of rows can be inserted.
Orderings(rows) ==
    {p \in [1..Cardinality(rows) -> rows] : Range(p) = rows}

\* session.add_all([...]); session.commit(): one flush inserts the entities
\* and then, with their new ids, one row of the secondary table per member
\* of a collection.  The flush walks its objects as a set, so the order of
\* the secondary rows is not fixed.
SeedAll ==
    /\ seed_pc = "created"
    /\ variant = 5
    /\ LET attached == AddAll(seed_links, AddAllList(seed_books, seed_authors), << >>)
       IN  /\ books' = InsertAll(books, InsertOrder(attached, "book", seed_books))
           /\ authors' = InsertAll(authors, InsertOrder(attached, "author", seed_authors))
           /\ seed_books' = RefreshedInOrder(books, books', attached, "book", seed_books)
           /\ seed_authors' =
                 RefreshedInOrder(authors, authors', attached, "author", seed_authors)
    /\ \E rows \in Orderings({LinkRow5(seed_links[i], seed_books', seed_authors') :
                                 i \in 1..Len(seed_links)}) :
          book_authors' = book_authors \o rows
    /\ seed_pc' = "ready"
    /\ UNCHANGED <<variant, seed_links, open_sessions, reqs>>

\* ------------------------------------------------------------------ query layer
\* The two directions of the relationship are written once, by side: "book"
\* stands for Book / BookSchema / get_book(s), "author" for the symmetric code.
Other(side) == IF side = "book" THEN "author" ELSE "book"
\* Foreign-key column of book_authors that points to `side`.
FkOfBookOnly(side) == "book_id"
FkOf(side) == IF side = "book" THEN "book_id" ELSE "author_id"
\* The text column of the entity table of `side`.
LabelOf(side) == IF side = "book" THEN "title" ELSE "name"
\* Name of the relationship (and of the response list) on `side`.
ListOf(side) == IF side = "book" THEN "authors" ELSE "books"
TableOf(st, side) == IF side = "book" THEN st.books ELSE st.authors

\* The NULL columns a LEFT OUTER JOIN yields for an entity without associations.
NullLink == [book_id |-> NoId, author_id |-> NoId, blurb |-> PyNone]

RECURSIVE InsertByKey(_, _, _)
\* `sorted` with row `l` put before the first row whose column `key` is larger.
InsertByKey(sorted, l, key) ==
    IF sorted = << >> THEN <<l>>
    ELSE IF l[key] < Head(sorted)[key] THEN <<l>> \o sorted
    ELSE <<Head(sorted)>> \o InsertByKey(Tail(sorted), l, key)

RECURSIVE ByKey(_, _)
\* Rows in ascending order of column `key`: the order in which a walk of an
\* index meets the rows of one entity.
ByKey(rows, key) ==
    IF rows = << >> THEN << >>
    ELSE InsertByKey(ByKey(Tail(rows), key), Head(rows), key)

\* No statement has an ORDER BY, so the rows of an entity come in the order
\* in which SQLite meets them, which depends on the statement:
\*   "index": through an index whose first column is the entity's foreign
\*     key, so in the order of the other foreign key.  This is the
\*     primary-key index (book_id, author_id) for the books of variants
\*     1..4, and the index SQLite builds for the join of a listing (authors
\*     of variants 1, 3, 4; both sides of without-extra-data-1.py);
\*   "scan": by a scan of book_authors, so in insertion order.  This is the
\*     lookup of one author (variants 1, 3, 4), Author.books of variant 2,
\*     and a singular lookup of without-extra-data-1.py, whose join with
\*     the secondary table is computed first.
AccessPath(v, side, singular) ==
    CASE v = 5 -> IF singular THEN "scan" ELSE "index"
      [] side = "book" -> "index"
      [] v = 2 -> "scan"
      [] OTHER -> IF singular THEN "scan" ELSE "index"

\* book_authors rows that reference entity `id` of `side` (the join condition
\* of the relationship and of the property's SQL), in the order of `path`.
LinksOf(st, side, id, path) ==
    LET mine == SelectSeq(st.book_authors, LAMBDA l : l[FkOf(side)] = id)
    IN  IF path = "scan" THEN mine ELSE ByKey(mine, FkOf(Other(side)))

\* Rows of the other side's table with the id a link points to: one row, or
\* none when the link dangles (the relationship attribute is then None).
RelatedOf(st, side, link) ==
    SelectSeq(TableOf(st, Other(side)), LAMBDA r : r.id = link[FkOf(Other(side))])

RECURSIVE JoinedRows(_, _, _, _)
\* SELECT ... FROM <side> LEFT OUTER JOIN book_authors ON <side>.id = fk:
\* one result row per (entity, association), or one row with NULLs for an
\* entity that has no association.
JoinedRows(st, side, prims, path) ==
    IF prims = << >> THEN << >>
    ELSE LET e == Head(prims)
             ls == LinksOf(st, side, e.id, path)
             mine == IF ls = << >> THEN << [ent |-> e, link |-> NullLink] >>
                     ELSE [i \in 1..Len(ls) |-> [ent |-> e, link |-> ls[i]]]
         IN  mine \o JoinedRows(st, side, Tail(prims), path)

\* Every result row's entity, repeated as often as it has rows.
EntitiesOfAllRows(rows, seen) == [i \in 1..Len(rows) |-> rows[i].ent]

RECURSIVE UniqueEntities(_, _)
\* The ORM's uniquing of a joined eager load: each entity once, in the order
\* of its first row (`seen` holds the ids already returned).
UniqueEntities(rows, seen) ==
    IF rows = << >> THEN << >>
    ELSE IF Head(rows).ent.id \in seen THEN UniqueEntities(Tail(rows), seen)
    ELSE <<Head(rows).ent>> \o UniqueEntities(Tail(rows), seen \cup {Head(rows).ent.id})

\* The collection the eager load populates on entity `e`: the non-NULL
\* association rows of its result rows, in row order.
CollectionOf(rows, e) ==
    LET mine == SelectSeq(rows, LAMBDA r : r.ent.id = e.id /\ r.link # NullLink)
    IN  [i \in 1..Len(mine) |-> mine[i].link]

\* Which loader options a variant's handlers pass to the query.
\*   joinedload(Book.authors): variants 1, 3, 4;  nested
\*   joinedload(BookAuthor.author): variants 3, 4;  none: variant 2.
\*   Variant 5's joinedload(Book.authors) goes through the secondary table
\*   to the authors themselves: associations and related entities in one.
LoadsLinks(v) == v \in {1, 3, 4, 5}
LoadsRelated(v) == v \in {3, 4, 5}

\* db.query(<side>).options(...)[.where(<side>.id == id)]: the selected
\* entities as loaded objects.  `links` is the eager-loaded collection (empty
\* when the variant does not load it) and `related[i]` the eager-loaded
\* entity of links[i] (a sequence of zero or one row).  `singular` tells the
\* statement with the WHERE from the one without.
Query(v, st, side, prims, singular) ==
    LET rows == IF LoadsLinks(v)
                THEN JoinedRows(st, side, prims, AccessPath(v, side, singular))
                ELSE [i \in 1..Len(prims) |-> [ent |-> prims[i], link |-> NullLink]]
        ents == UniqueEntities(rows, {})
    IN  [i \in 1..Len(ents) |->
           LET ls == IF LoadsLinks(v) THEN CollectionOf(rows, ents[i]) ELSE << >>
           IN  [row |-> ents[i],
                links |-> ls,
                related |-> IF LoadsRelated(v)
                            THEN [j \in 1..Len(ls) |-> RelatedOf(st, side, ls[j])]
                            ELSE << >>]]

\* Reading link.author / link.book of the i-th association of a loaded
\* entity: the eager-loaded object, or else a lazy load through the session.
RelatedAttr(v, st, side, e, i) ==
    IF LoadsRelated(v) THEN e.related[i] ELSE RelatedOf(st, side, e.links[i])

\* .where(<side>.id == id)
WhereId(st, side, id) == SelectSeq(TableOf(st, side), LAMBDA r : r.id = id)

\* Query.one(): exactly one entity, else NoResultFound / MultipleResultsFound.
One(ents) == Len(ents) = 1

\* ------------------------------------------------------------------ shaping layer
\* A JSON object is a function from its keys to its values.
Exclude(d, keys) == [k \in DOMAIN d \ keys |-> d[k]]

\* One entry of an `authors` / `books` list of a response of `side`.
MkEntry(side, id, label, blurb) ==
    [k \in {"id", LabelOf(Other(side)), "blurb"} |->
        CASE k = "id" -> id
          [] k = "blurb" -> blurb
          [] OTHER -> label]

\* Outcome of shaping: ok with a body, or an exception raised while the
\* response model is built.
Shaped(body) == [ok |-> TRUE, body |-> body]
ShapeError == [ok |-> FALSE, body |-> << >>]

AllOk(outs) == \A i \in 1..Len(outs) : outs[i].ok
Bodies(outs) == [i \in 1..Len(outs) |-> outs[i].body]

\* ---- variant 1: association proxies and aliases (with-extra-data-1.py)
\* AuthorBase / BookBase read from a BookAuthor: id <- alias author_id,
\* name <- alias author_name (the proxy onto BookAuthor.author, given as
\* `rel`: zero or one row), blurb <- blurb.  A None name fails validation.
Entry1(side, link, rel) ==
    IF rel = << >> THEN ShapeError
    ELSE Shaped(MkEntry(side, link[FkOf(Other(side))],
                            rel[1][LabelOf(Other(side))], link.blurb))

\* BookSchema / AuthorSchema read from a Book / Author: the aliases are not
\* attributes of the entity, so id and title (name) are populated by field
\* name; blurb is not an attribute either and takes its default None.
Model1(v, st, side, e) ==
    LET outs == [i \in 1..Len(e.links) |->
                    Entry1(side, e.links[i], RelatedAttr(v, st, side, e, i))]
    IN  IF ~AllOk(outs) THEN ShapeError
        ELSE Shaped([k \in {"id", LabelOf(side), "blurb", ListOf(side)} |->
                        CASE k = "id" -> e.row.id
                          [] k = "blurb" -> PyNone
                          [] k = ListOf(side) -> Bodies(outs)
                          [] OTHER -> e.row[LabelOf(side)]])

\* response_model_exclude={'blurb'}: the encoder drops the excluded keys of
\* the model it is called on; the exclusion is not handed down to the values.
ResponseExclude(d, keys) == Exclude(d, keys)

Shape1(v, st, side, e) ==
    LET m == Model1(v, st, side, e)
    IN  IF m.ok THEN Shaped(ResponseExclude(m.body, {"blurb"})) ELSE ShapeError

\* ---- variant 2: view-only property running SQL (with-extra-data-2.py)
\* Book.authors / Author.books: the other side's columns plus blurb and the
\* own foreign key, inner-joined, for the rows of this entity.
PropertyRows(st, side, id) ==
    LET ls == SelectSeq(LinksOf(st, side, id, AccessPath(2, side, TRUE)),
                        LAMBDA l : RelatedOf(st, side, l) # << >>
                                   /\ WhereId(st, side, id) # << >>)
    IN  [i \in 1..Len(ls) |->
           LET r == RelatedOf(st, side, ls[i])[1]
           IN  [k \in {"id", LabelOf(Other(side)), "blurb", FkOf(side)} |->
                  CASE k = "id" -> r.id
                    [] k = "blurb" -> ls[i].blurb
                    [] k = FkOf(side) -> ls[i][FkOf(side)]
                    [] OTHER -> r[LabelOf(Other(side))]]]

\* AuthorBase / BookBase declare id and name (title) only: from_orm reads
\* the declared fields of the row and nothing else.
Entry2(side, row) == [k \in {"id", LabelOf(Other(side))} |-> row[k]]

Shape2(st, side, e) ==
    LET rows == PropertyRows(st, side, e.row.id)
    IN  Shaped([k \in {"id", LabelOf(side), ListOf(side)} |->
                  CASE k = "id" -> e.row.id
                    [] k = ListOf(side) -> [i \in 1..Len(rows) |-> Entry2(side, rows[i])]
                    [] OTHER -> e.row[LabelOf(side)]])

\* ---- variant 3: custom GetterDict (with-extra-data-3.py)
\* BookAuthorGetter.get / AuthorBookGetter.get: id and name (title) come
\* from the related object, every other key from the association itself.
\* `rel` is the eager-loaded related object (zero or one row).
Getter(side, link, rel, key) ==
    IF key \in {"id", LabelOf(Other(side))} THEN rel[1][key] ELSE link[key]

Entry3(side, link, rel) ==
    IF rel = << >> THEN ShapeError
    ELSE Shaped(MkEntry(side, Getter(side, link, rel, "id"),
                        Getter(side, link, rel, LabelOf(Other(side))),
                        Getter(side, link, rel, "blurb")))

Shape3(v, st, side, e) ==
    LET outs == [i \in 1..Len(e.links) |->
                    Entry3(side, e.links[i], RelatedAttr(v, st, side, e, i))]
    IN  IF ~AllOk(outs) THEN ShapeError
        ELSE Shaped([k \in {"id", LabelOf(side), ListOf(side)} |->
                        CASE k = "id" -> e.row.id
                          [] k = ListOf(side) -> Bodies(outs)
                          [] OTHER -> e.row[LabelOf(side)]])

\* ---- variant 4: custom dict() (with-extra-data-4.py)
\* BookAuthorSchema / AuthorBookSchema: blurb plus the optional nested
\* related object (zero or one row).
Nested4(side, link, rel) ==
    [k \in {"blurb", Other(side)} |-> IF k = "blurb" THEN link.blurb ELSE rel]

\* The loop body of BookSchema.dict / AuthorSchema.dict: copy id and name
\* (title) out of the nested object, then delete it.
Flatten(side, a) ==
    [k \in (DOMAIN a \cup {"id", LabelOf(Other(side))}) \ {Other(side)} |->
        IF k \in DOMAIN a THEN a[k] ELSE a[Other(side)][1][k]]

Shape4(v, st, side, e) ==
    LET data == [i \in 1..Len(e.links) |->
                    Nested4(side, e.links[i], RelatedAttr(v, st, side, e, i))]
    IN  IF \E i \in 1..Len(data) : data[i][Other(side)] = << >> THEN ShapeError
        ELSE Shaped([k \in {"id", LabelOf(side), ListOf(side)} |->
                        CASE k = "id" -> e.row.id
                          [] k = ListOf(side) -> [i \in 1..Len(data) |-> Flatten(side, data[i])]
                          [] OTHER -> e.row[LabelOf(side)]])

\* ---- variant 5: plain many-to-many (without-extra-data-1.py)
\* Book.authors / Author.books hold the related entities themselves (the
\* secondary join drops a row whose other side does not exist); AuthorBase /
\* BookBase read id and name (title) from them.
Shape5(side, e) ==
    LET there == SelectSeq(e.related, LAMBDA rel : rel # << >>)
    IN  Shaped([k \in {"id", LabelOf(side), ListOf(side)} |->
                  CASE k = "id" -> e.row.id
                    [] k = ListOf(side) ->
                          [i \in 1..Len(there) |->
                              [f \in {"id", LabelOf(Other(side))} |-> there[i][1][f]]]
                    [] OTHER -> e.row[LabelOf(side)]])

\* The response model of variant v applied to one returned entity.  Variants
\* 1 and 2 read the store again while shaping (lazy load, property SQL).
Shape(v, st, side, e) ==
    CASE v = 1 -> Shape1(v, st, side, e)
      [] v = 2 -> Shape2(st, side, e)
      [] v = 3 -> Shape3(v, st, side, e)
      [] v = 4 -> Shape4(v, st, side, e)
      [] OTHER -> Shape5(side, e)

\* ------------------------------------------------------------------ storage queries
RECURSIVE Concat(_)
Concat(seqs) == IF seqs = << >> THEN << >> ELSE Head(seqs) \o Concat(Tail(seqs))

\* Queries issued while the response model reads the returned entities.
\*   variant 2: the property runs its SELECT once per returned entity;
\*   related objects eager-loaded (variants 3, 4): none, everything was
\*     loaded by the handler's query;
\*   otherwise (variant 1, whose proxy reads BookAuthor.author / .book): a
\*     lazy load per association read, which is a SELECT unless the related
\*     entity is already in the session: one per distinct related entity,
\*     and one per association whose related entity does not exist.
SerializeQueries(v, st, side, ents) ==
    LET ls == Concat([i \in 1..Len(ents) |-> ents[i].links])
        found == {i \in 1..Len(ls) : RelatedOf(st, side, ls[i]) # << >>}
        missing == {i \in 1..Len(ls) : RelatedOf(st, side, ls[i]) = << >>}
    IN  CASE v = 2 -> Len(ents)
          [] LoadsRelated(v) -> 0
          [] OTHER -> Cardinality({ls[i][FkOf(Other(side))] : i \in found})
                      + Cardinality(missing)

\* ------------------------------------------------------------------ transport layer
SideOf(kind) == IF kind \in {"book", "books"} THEN "book" ELSE "author"
IsSingular(kind) == kind \in {"book", "author"}

\* The {id} segment of a request path is text: the decimal form of an
\* integer, another spelling of one, or something else.
NoPath == ""
NotIntegers == {"abc", "1.0"}
OtherSpellings == {"01", "+1", " 1", "\f1"}
PathSegments == {ToString(i) : i \in PathIds} \cup {"abc"}

\* GET /books, GET /authors, GET /books/{id}, GET /authors/{id}.
Requests ==
    {[kind |-> k, id |-> NoPath] : k \in {"books", "authors"}}
    \cup {[kind |-> k, id |-> seg] : k \in {"book", "author"}, seg \in PathSegments}
\* The singular routes with the remaining segments.
MoreRequests ==
    {[kind |-> k, id |-> seg] :
        k \in {"book", "author"}, seg \in NotIntegers \cup OtherSpellings}

\* ---- int(str), which the validator of a parameter declared `id: int`
\* applies to the segment.  Text is Latin-1 here: int() also strips the
\* spaces of Unicode beyond it and reads the decimal digits of other scripts.
\* The characters int() strips: space, tab, line feed, carriage return,
\* form feed, vertical tab (0x0B), next line (0x85), no-break space (0xA0).
Whitespace == {" ", "\t", "\n", "\r", "\f", "", "", " "}
DigitValue(c) ==
    CASE c = "0" -> 0 [] c = "1" -> 1 [] c = "2" -> 2 [] c = "3" -> 3 [] c = "4" -> 4
      [] c = "5" -> 5 [] c = "6" -> 6 [] c = "7" -> 7 [] c = "8" -> 8 [] c = "9" -> 9
      [] OTHER -> -1
IsDigit(c) == DigitValue(c) >= 0

RECURSIVE LStrip(_)
LStrip(str) == IF str # "" /\ Head(str) \in Whitespace THEN LStrip(Tail(str)) ELSE str
RECURSIVE RStrip(_)
RStrip(str) ==
    IF str # "" /\ SubSeq(str, Len(str), Len(str)) \in Whitespace
    THEN RStrip(SubSeq(str, 1, Len(str) - 1))
    ELSE str

RECURSIVE ParseDigits(_, _, _)
\* The value of a run of digits, in which single underscores may stand
\* between digits, as a sequence of one value; empty when `str` is no such
\* run.  `acc` is the value so far, `digit` whether the last character
\* read was a digit.
ParseDigits(str, acc, digit) ==
    IF str = "" THEN (IF digit THEN <<acc>> ELSE << >>)
    ELSE IF IsDigit(Head(str))
         THEN ParseDigits(Tail(str), 10 * acc + DigitValue(Head(str)), TRUE)
    ELSE IF Head(str) = "_" /\ digit THEN ParseDigits(Tail(str), acc, FALSE)
    ELSE << >>

\* The path parameter declared `id: int`: the integer a segment stands for,
\* as a sequence of one value, or the empty sequence when int() rejects it.
\* Surrounding whitespace, a sign, leading zeros and underscores between
\* digits are accepted.
IntValidator(seg) ==
    LET str == RStrip(LStrip(seg))
        signed == str # "" /\ Head(str) \in {"+", "-"}
        n == ParseDigits(IF signed THEN Tail(str) ELSE str, 0, FALSE)
    IN  IF n = << >> THEN << >>
        ELSE IF signed /\ Head(str) = "-" THEN << -n[1] >>
        ELSE n
\* The handler's argument `id` of a request whose path is valid.
PathId(req) == IntValidator(req.id)[1]
\* A request the framework hands to its handler: one without a path
\* parameter, or whose segment is an integer.
PathOk(req) == IsSingular(req.kind) => IntValidator(req.id) # << >>

NoResponse == [status |-> 0, body |-> << >>]
\* RequestValidationError as the framework's default handler answers it.
Unprocessable ==
    [status |-> 422,
     body |-> [detail |-> << [loc |-> <<"path", "id">>,
                              msg |-> "value is not a valid integer",
                              type |-> "type_error.integer"] >>]]
\* An exception that leaves the handler or the response model unhandled.
ServerError == [status |-> 500, body |-> "Internal Server Error"]

Idle == [pc |-> "idle", req |-> [kind |-> "books", id |-> NoPath], db |-> 0,
         result |-> << >>, resp |-> NoResponse, nq |-> 0]

\* Session(bind=engine): a new Session object, distinct from every Session
\* another request in flight holds.
SharedSession(s) == 1
NewSession(s) ==
    LET held == {reqs[t].db : t \in {u \in Slots \ {s} : reqs[u].pc # "idle"}}
        free == (1..NumReq) \ held
    IN  IF s \in free THEN s ELSE CHOOSE d \in free : \A c \in free : d <= c

\* get_db up to its yield: the request's dependency is resolved before the
\* handler runs.  The slot takes a new request once the previous one is done.
GetDb(s, req) ==
    /\ seed_pc = "ready"
    /\ reqs[s].pc \in {"idle", "done"}
    /\ LET d == NewSession(s)
       IN  /\ open_sessions' = open_sessions \cup {d}
           /\ reqs' = [reqs EXCEPT ![s] = [Idle EXCEPT !.pc = "open", !.req = req, !.db = d]]
    /\ UNCHANGED <<variant, seed_pc, seedVars, tableVars>>

\* The entities the handler's query selects and loads.
HandlerQuery(v, st, req) ==
    Query(v, st, SideOf(req.kind),
          IF IsSingular(req.kind) THEN WhereId(st, SideOf(req.kind), PathId(req))
          ELSE TableOf(st, SideOf(req.kind)),
          IsSingular(req.kind))

\* The path of a singular route is validated once the dependencies are
\* resolved: for a segment that is not an integer the handler is not called
\* and RequestValidationError is raised.
ValidationError(s) ==
    /\ reqs[s].pc = "open"
    /\ ~PathOk(reqs[s].req)
    /\ reqs' = [reqs EXCEPT ![s].pc = "invalid"]
    /\ UNCHANGED <<variant, seed_pc, seedVars, tableVars, open_sessions>>

\* get_book / get_books / get_author / get_authors: one query on the
\* request's session; .one() raises when the id matches no row.
Handler(s) ==
    /\ reqs[s].pc = "open"
    /\ PathOk(reqs[s].req)
    /\ LET r == reqs[s]
           ents == HandlerQuery(variant, Store, r.req)
       IN  \/ /\ IsSingular(r.req.kind) => One(ents)
              /\ reqs' = [reqs EXCEPT ![s].pc = "fetched", ![s].result = ents, ![s].nq = 1]
           \/ /\ IsSingular(r.req.kind) /\ ~One(ents)
              /\ reqs' = [reqs EXCEPT ![s].pc = "raised", ![s].nq = 1]
    /\ UNCHANGED <<variant, seed_pc, seedVars, tableVars, open_sessions>>

\* The body built from the shaped entities: one object, or the list of them.
BodyOf(req, outs) == IF IsSingular(req.kind) THEN outs[1].body ELSE Bodies(outs)

\* A request served from start to end with nothing else running: the
\* handler's query, then the response model, on the store as it is.
RunAlone(v, st, req) ==
    LET ents == HandlerQuery(v, st, req)
        outs == [i \in 1..Len(ents) |-> Shape(v, st, SideOf(req.kind), ents[i])]
    IN  IF ~PathOk(req) THEN Unprocessable
        ELSE IF IsSingular(req.kind) /\ ~One(ents) THEN ServerError
        ELSE IF ~AllOk(outs) THEN ServerError
        ELSE [status |-> 200, body |-> BodyOf(req, outs)]

\* response_model: the returned objects are read into the response model
\* and encoded, still inside the request's session.
SerializeDropping(s) ==
    /\ reqs[s].pc = "fetched"
    /\ LET r == reqs[s]
           side == SideOf(r.req.kind)
           outs == [i \in 1..Len(r.result) |-> Shape(variant, Store, side, r.result[i])]
       IN  reqs' = [reqs EXCEPT ![s].pc = "responded",
                                ![s].resp = [status |-> 200, body |-> BodyOf(r.req, outs)]]
    /\ book_authors' = SelectSeq(book_authors,
          LAMBDA l : \A i \in 1..Len(reqs[s].result) : l \notin Range(reqs[s].result[i].links))
    /\ UNCHANGED <<variant, seed_pc, seedVars, books, authors, open_sessions>>
Serialize(s) ==
    /\ reqs[s].pc = "fetched"
    /\ LET r == reqs[s]
           side == SideOf(r.req.kind)
           outs == [i \in 1..Len(r.result) |-> Shape(variant, Store, side, r.result[i])]
           n == r.nq + SerializeQueries(variant, Store, side, r.result)
       IN  reqs' = [reqs EXCEPT
              ![s].pc = IF AllOk(outs) THEN "responded" ELSE "raised",
              ![s].nq = n,
              ![s].resp = IF AllOk(outs)
                          THEN [status |-> 200, body |-> BodyOf(r.req, outs)]
                          ELSE NoResponse]
    /\ UNCHANGED <<variant, seed_pc, seedVars, tableVars, open_sessions>>

\* Where a request stands once its session is closed: answered when the
\* response was built, else with its exception still on the way out.
AfterClose(pc) ==
    CASE pc = "responded" -> "done"
      [] pc = "raised" -> "unhandled"
      [] OTHER -> "rejected"

\* get_db after its yield: `finally: db.close()` runs when the request is
\* over, whether the response was built, the path was rejected, or an
\* exception is on its way out.  An exception goes on to the framework's
\* handlers afterwards, in a later step of the request.
CloseDbOnSuccessOnly(s) ==
    /\ reqs[s].pc \in {"responded", "raised", "invalid"}
    /\ open_sessions' = IF reqs[s].pc # "raised" THEN open_sessions \ {reqs[s].db}
                        ELSE open_sessions
    /\ reqs' = [reqs EXCEPT ![s].pc = AfterClose(@)]
    /\ UNCHANGED <<variant, seed_pc, seedVars, tableVars>>
CloseDb(s) ==
    /\ reqs[s].pc \in {"responded", "raised", "invalid"}
    /\ open_sessions' = open_sessions \ {reqs[s].db}
    /\ reqs' = [reqs EXCEPT ![s].pc = AfterClose(@)]
    /\ UNCHANGED <<variant, seed_pc, seedVars, tableVars>>

\* No handler is registered for the exception of .one() (or of the response
\* model): it reaches the server-error middleware, which answers 500.
ServerErrorResponse(s) ==
    /\ reqs[s].pc = "unhandled"
    /\ reqs' = [reqs EXCEPT ![s].pc = "done", ![s].resp = ServerError]
    /\ UNCHANGED <<variant, seed_pc, seedVars, tableVars, open_sessions>>

\* RequestValidationError is answered by the framework's default handler.
ValidationErrorResponse(s) ==
    /\ reqs[s].pc = "rejected"
    /\ reqs' = [reqs EXCEPT ![s].pc = "done", ![s].resp = Unprocessable]
    /\ UNCHANGED <<variant, seed_pc, seedVars, tableVars, open_sessions>>

\* ------------------------------------------------------------------ specifications
\* Import of the module: tables created and empty, seed objects built.
Init ==
    /\ variant \in Variants
    /\ seed_pc = "created"
    /\ seed_books = SeedBookObjs
    /\ seed_authors = SeedAuthorObjs
    /\ seed_links = SeedLinks
    /\ books = << >>
    /\ authors = << >>
    /\ book_authors = << >>
    /\ open_sessions = {}
    /\ reqs = [s \in Slots |-> Idle]

Next ==
    \/ SeedEntities
    \/ SeedAssociations
    \/ \E s \in Slots : \E req \in Requests : GetDb(s, req)
    \/ \E s \in Slots : ValidationError(s)
    \/ \E s \in Slots : Handler(s)
    \/ \E s \in Slots : Serialize(s)
    \/ \E s \in Slots : CloseDb(s)
    \/ \E s \in Slots : ServerErrorResponse(s)
    \/ \E s \in Slots : ValidationErrorResponse(s)

Spec == Init /\ [][Next]_vars

\* ---- the same program over the seed block and over seed blocks of other
\* (bounded) sizes
\* The i-th book / author object of a seed block: the literal of the
\* program's block where it has one.
SeedBookAt(i) ==
    IF i <= Len(SeedBookObjs) THEN SeedBookObjs[i]
    ELSE [id |-> NoId, title |-> "Book " \o ToString(i)]
SeedAuthorAt(i) ==
    IF i <= Len(SeedAuthorObjs) THEN SeedAuthorObjs[i]
    ELSE [id |-> NoId, name |-> "Author " \o ToString(i)]
\* The blurb of the pairing of the b-th book with the a-th author.
SeedBlurbAt(b, a) ==
    IF \E i \in 1..Len(SeedLinks) : SeedLinks[i].book = b /\ SeedLinks[i].author = a
    THEN SeedLinks[CHOOSE i \in 1..Len(SeedLinks) :
                      SeedLinks[i].book = b /\ SeedLinks[i].author = a].blurb
    ELSE "blurb " \o ToString(b) \o "-" \o ToString(a)

RECURSIVE LinkSeq(_)
\* The chosen (book, author) pairs as seed links, by book then author.
LinkSeq(pairs) ==
    IF pairs = {} THEN << >>
    ELSE LET m == CHOOSE p \in pairs :
                     \A q \in pairs : p[1] < q[1] \/ (p[1] = q[1] /\ p[2] <= q[2])
         IN  << [book |-> m[1], author |-> m[2], blurb |-> SeedBlurbAt(m[1], m[2])] >>
             \o LinkSeq(pairs \ {m})

\* The program's seed block, or a block of up to MaxBooks books and
\* MaxAuthors authors with any set of pairings.
InitQ ==
    /\ variant \in Variants
    /\ seed_pc = "created"
    /\ \/ /\ seed_books = SeedBookObjs
          /\ seed_authors = SeedAuthorObjs
          /\ seed_links = SeedLinks
       \/ \E nb \in 0..MaxBooks : \E na \in 0..MaxAuthors :
             /\ seed_books = [i \in 1..nb |-> SeedBookAt(i)]
             /\ seed_authors = [i \in 1..na |-> SeedAuthorAt(i)]
             /\ \E pairs \in SUBSET ((1..nb) \X (1..na)) : seed_links = LinkSeq(pairs)
    /\ books = << >>
    /\ authors = << >>
    /\ book_authors = << >>
    /\ open_sessions = {}
    /\ reqs = [s \in Slots |-> Idle]

\* One request at a time.
NextQ ==
    \/ SeedEntities
    \/ SeedAssociations
    \/ \E req \in Requests \cup MoreRequests : GetDb(1, req)
    \/ ValidationError(1)
    \/ Handler(1)
    \/ Serialize(1)
    \/ CloseDb(1)
    \/ ServerErrorResponse(1)
    \/ ValidationErrorResponse(1)

SpecQ == InitQ /\ [][NextQ]_vars

\* ---- any of the five programs of the repository
InitW ==
    /\ variant \in AllVariants
    /\ seed_pc = "created"
    /\ seed_books = SeedBookObjs
    /\ seed_authors = SeedAuthorObjs
    /\ seed_links = IF variant = 5 THEN SeedLinks5 ELSE SeedLinks
    /\ books = << >>
    /\ authors = << >>
    /\ book_authors = << >>
    /\ open_sessions = {}
    /\ reqs = [s \in Slots |-> Idle]

\* One request at a time.
NextW ==
    \/ variant # 5 /\ SeedEntities
    \/ SeedAssociations
    \/ SeedAll
    \/ \E req \in Requests \cup MoreRequests : GetDb(1, req)
    \/ ValidationError(1)
    \/ Handler(1)
    \/ Serialize(1)
    \/ CloseDb(1)
    \/ ServerErrorResponse(1)
    \/ ValidationErrorResponse(1)

SpecW == InitW /\ [][NextW]_vars

\* ------------------------------------------------------------------ properties
\* A request that is over and was answered with a success body.
DoneOk(s) == reqs[s].pc = "done" /\ reqs[s].resp.status = 200
\* The top-level Book / Author objects of a success body.
ObjectsOf(s) ==
    IF IsSingular(reqs[s].req.kind) THEN << reqs[s].resp.body >> ELSE reqs[s].resp.body
\* Positions in book_authors of the rows pairing entity `id` of `side`.
PairRows(side, id) == {i \in 1..Len(book_authors) : book_authors[i][FkOf(side)] = id}
EntryKeys(side) == {"id", LabelOf(Other(side)), "blurb"}

\* C1: in every variant, the authors (books) list of a singular GET response
\* has one entry per association row of that entity, and every entry has
\* exactly the keys id, name (title) and blurb, id and name (title) being
\* those of the linked entity.
C1_EntriesAreIdNameBlurb ==
    \A s \in Slots :
        (DoneOk(s) /\ IsSingular(reqs[s].req.kind)) =>
            LET side == SideOf(reqs[s].req.kind)
                list == reqs[s].resp.body[ListOf(side)]
                rows == LinksOf(Store, side, PathId(reqs[s].req),
                               AccessPath(variant, side, TRUE))
            IN  /\ Len(list) = Len(rows)
                /\ \A i \in 1..Len(list) :
                      /\ DOMAIN list[i] = EntryKeys(side)
                      /\ \E x \in Range(TableOf(Store, Other(side))) :
                            /\ x.id = rows[i][FkOf(Other(side))]
                            /\ list[i].id = x.id
                            /\ list[i][LabelOf(Other(side))] = x[LabelOf(Other(side))]

\* C2: every list entry of every response carries a blurb, and it is the
\* blurb of the association row pairing the enclosing entity with the
\* entry's entity, and of no other row.
C2_MergeCorrectness ==
    \A s \in Slots :
        DoneOk(s) =>
            LET side == SideOf(reqs[s].req.kind)
                objs == ObjectsOf(s)
            IN  \A o \in 1..Len(objs) : \A i \in 1..Len(objs[o][ListOf(side)]) :
                    LET en == objs[o][ListOf(side)][i]
                        pair == {j \in PairRows(side, objs[o].id) :
                                    book_authors[j][FkOf(Other(side))] = en.id}
                    IN  /\ "blurb" \in DOMAIN en
                        /\ pair # {}
                        /\ \A j \in pair : book_authors[j].blurb = en.blurb

\* C3: a singular GET whose id matches no stored row (an integer without a
\* row, or a segment that is no integer) ends with a client error (4xx).
C3_MissingIdIsClientError ==
    \A s \in Slots :
        (/\ reqs[s].pc = "done"
         /\ IsSingular(reqs[s].req.kind)
         /\ \/ ~PathOk(reqs[s].req)
            \/ WhereId(Store, SideOf(reqs[s].req.kind), PathId(reqs[s].req)) = << >>)
        => reqs[s].resp.status \in 400..499

\* C4: in every response no top-level Book / Author object has a blurb
\* key, and every entry of its nested list has a blurb.
C4_BlurbOnlyInEntries ==
    \A s \in Slots :
        DoneOk(s) =>
            LET side == SideOf(reqs[s].req.kind)
                objs == ObjectsOf(s)
            IN  \A o \in 1..Len(objs) :
                    /\ "blurb" \notin DOMAIN objs[o]
                    /\ \A i \in 1..Len(objs[o][ListOf(side)]) :
                          /\ "blurb" \in DOMAIN objs[o][ListOf(side)][i]
                          /\ objs[o][ListOf(side)][i].blurb # PyNone

\* A request between get_db's yield and its finally.
InFlight(s) == reqs[s].pc \in {"open", "fetched", "responded", "raised", "invalid"}

\* C5: once the seed block is over no step changes a table, and two
\* completed GETs of the same path carry the same response whatever ran
\* before or between them.
C5_Idempotence ==
    /\ [][seed_pc = "ready" => tableVars' = tableVars]_vars
    /\ [](\A s, t \in Slots :
             (reqs[s].pc = "done" /\ reqs[t].pc = "done" /\ reqs[s].req = reqs[t].req)
             => reqs[s].resp = reqs[t].resp)

\* The same path was answered twice, with a body that has list entries.
C5_Witness ==
    \E s, t \in Slots :
        /\ s # t
        /\ DoneOk(s) /\ DoneOk(t)
        /\ reqs[s].req = [kind |-> "author", id |-> "1"]
        /\ reqs[t].req = reqs[s].req
        /\ Len(reqs[t].resp.body.books) = 2

\* C6: a request holds an open session of its own from its start until
\* get_db's finally, and a request that is answered, or whose exception is
\* on its way to being answered, has closed it: after a response, after an
\* exception of the handler and after a rejected path alike.
C6_SessionReleased ==
    /\ \A s \in Slots :
          /\ InFlight(s) => reqs[s].db \in open_sessions
          /\ reqs[s].pc \in {"unhandled", "rejected", "done"} =>
                reqs[s].db \notin open_sessions
    /\ \A d \in open_sessions : \E s \in Slots : InFlight(s) /\ reqs[s].db = d

\* One request ended in an exception and was answered 500, another has
\* built its body and closed its session, and no session is left open.
C6_Witness ==
    \E s, t \in Slots :
        /\ reqs[s].pc = "done" /\ reqs[s].resp.status = 500
        /\ DoneOk(t)
        /\ open_sessions = {}

\* C7: from the end of the seed block on, the tables hold exactly the two
\* books, three authors and four associations of the seed literals with ids
\* 1..2 and 1..3; association rows exist only once the first commit has
\* given every seed object its id.
C7_SeedDeterministic ==
    /\ seed_pc = "ready" =>
          /\ books = << [id |-> 1, title |-> "Dead People Who'd Be Influencers Today"],
                        [id |-> 2, title |-> "How To Make Friends In Your 30s"] >>
          /\ authors = << [id |-> 1, name |-> "Blu Renolds"],
                          [id |-> 2, name |-> "Chip Egan"],
                          [id |-> 3, name |-> "Alyssa Wyatt"] >>
          /\ book_authors =
                << [book_id |-> 1, author_id |-> 1, blurb |-> "Blue wrote chapter 1"],
                   [book_id |-> 1, author_id |-> 2, blurb |-> "Chip wrote chapter 2"],
                   [book_id |-> 2, author_id |-> 1, blurb |-> "Blue wrote chapters 1-3"],
                   [book_id |-> 2, author_id |-> 3, blurb |-> "Alyssa wrote chapter 4"] >>
    /\ seed_pc # "ready" => book_authors = << >>
    /\ book_authors # << >> =>
          /\ \A i \in 1..Len(seed_books) : seed_books[i].id # NoId
          /\ \A i \in 1..Len(seed_authors) : seed_authors[i].id # NoId
          /\ \A i \in 1..Len(book_authors) :
                book_authors[i].book_id # NoId /\ book_authors[i].author_id # NoId

\* The seed block is over and requests have been served since.
C7_Witness ==
    /\ seed_pc = "ready"
    /\ Len(book_authors) = 4
    /\ \E s \in Slots : DoneOk(s)

\* C8: the four variants answer every request alike: same status, same body.
C8_VariantsAgree ==
    \A s \in Slots :
        reqs[s].pc = "done" =>
            \A v \in Variants :
                LET other == RunAlone(v, Store, reqs[s].req)
                IN  /\ other.status = reqs[s].resp.status
                    /\ other.body = reqs[s].resp.body

\* The listing requests that are over.
DoneListing(s) == reqs[s].pc = "done" /\ ~IsSingular(reqs[s].req.kind)
\* C9: serving a listing request issues one storage query, however many
\* books or authors exist.
C9_ListingIsOneQuery ==
    \A s \in Slots : DoneListing(s) => reqs[s].nq = 1

\* an entity without associations having an empty list; the object of an
\* entity is the body of the singular GET of its id.
C11_ListingIsOnePerEntity ==
    \A s \in Slots :
        DoneListing(s) =>
            LET side == SideOf(reqs[s].req.kind)
                table == TableOf(Store, side)
                body == reqs[s].resp.body
            IN  /\ reqs[s].resp.status = 200
                /\ Len(body) = Len(table)
                /\ \A i \in 1..Len(table) :
                      LET one == RunAlone(variant, Store,
                                          [kind |-> side, id |-> ToString(table[i].id)])
                      IN  /\ body[i].id = table[i].id
                          /\ Len(body[i][ListOf(side)]) = Len(LinksOf(Store, side, table[i].id, "scan"))
                          /\ one.status = 200
                          /\ body[i] = one.body

\* A listing of two books, the first with two associations (two rows of the
\* joined fetch), the second with none.
C11_Witness ==
    \E s \in Slots :
        /\ variant \in {1, 3, 4}
        /\ DoneListing(s) /\ reqs[s].req.kind = "books"
        /\ reqs[s].resp.status = 200
        /\ Len(reqs[s].resp.body) = 2
        /\ Len(reqs[s].resp.body[1].authors) = 2
        /\ reqs[s].resp.body[2].authors = << >>

\* C12: every association row references exactly one stored book and one
\* stored author, no two rows have the same (book_id, author_id), and so the
\* related object of an association being shaped is never missing: the only
\* exception a request meets is the one of a singular lookup without a row.
C12_AssociationsAreSound ==
    /\ \A i \in 1..Len(book_authors) :
          /\ Cardinality({j \in 1..Len(books) : books[j].id = book_authors[i].book_id}) = 1
          /\ Cardinality({j \in 1..Len(authors) : authors[j].id = book_authors[i].author_id}) = 1
          /\ \A k \in 1..Len(book_authors) :
                (/\ book_authors[k].book_id = book_authors[i].book_id
                 /\ book_authors[k].author_id = book_authors[i].author_id) => k = i
    /\ \A s \in Slots :
          /\ reqs[s].pc \in {"fetched", "responded", "done"} =>
                \A e \in 1..Len(reqs[s].result) :
                   \A i \in 1..Len(reqs[s].result[e].links) :
                      RelatedAttr(variant, Store, SideOf(reqs[s].req.kind),
                                  reqs[s].result[e], i) # << >>
          /\ reqs[s].pc = "raised" =>
                /\ IsSingular(reqs[s].req.kind)
                /\ PathOk(reqs[s].req)
                /\ WhereId(Store, SideOf(reqs[s].req.kind), PathId(reqs[s].req)) = << >>

\* The custom dict() of variant 4 has flattened the two associations of
\* Book 2, reading the author sub-object of each.
C12_Witness ==
    \E s \in Slots :
        /\ variant = 4
        /\ DoneOk(s)
        /\ reqs[s].req = [kind |-> "book", id |-> "2"]
        /\ Len(reqs[s].result[1].links) = 2
        /\ Len(reqs[s].resp.body.authors) = 2
        /\ reqs[s].resp.body.authors[2].id = 3

\* Positions of the entries with a given id in a response list.
EntriesWithId(list, id) == {i \in 1..Len(list) : list[i].id = id}

\* C13: in each of the five programs, author a is in the authors list of
\* GET /books/{b} exactly when book b is in the books list of GET
\* /authors/{a} (and symmetrically from an author's response), every entry
\* is a stored entity, and where both entries carry a blurb it is the same
\* one.
C13_DirectionsAgree ==
    \A s \in Slots :
        (DoneOk(s) /\ IsSingular(reqs[s].req.kind)) =>
            LET side == SideOf(reqs[s].req.kind)
                other == Other(side)
                mine == reqs[s].resp.body[ListOf(side)]
                table == TableOf(Store, other)
            IN  /\ \A i \in 1..Len(mine) : \E e \in Range(table) : e.id = mine[i].id
                /\ \A e \in Range(table) :
                      LET back == RunAlone(variant, Store,
                                           [kind |-> other, id |-> ToString(e.id)])
                          theirs == back.body[ListOf(other)]
                          A == EntriesWithId(mine, e.id)
                          B == EntriesWithId(theirs, PathId(reqs[s].req))
                      IN  /\ back.status = 200
                          /\ (A # {}) <=> (B # {})
                          /\ \A i \in A : \A j \in B :
                                /\ ("blurb" \in DOMAIN mine[i]) <=> ("blurb" \in DOMAIN theirs[j])
                                /\ "blurb" \in DOMAIN mine[i] => mine[i].blurb = theirs[j].blurb

\* The program without extra data has answered GET /books/2: Alyssa Wyatt,
\* inserted second and so author 2, is in its list as Book 2 is in the list
\* of GET /authors/2, and author 3 (Chip Egan) is in neither direction.
C13_Witness ==
    \E s \in Slots :
        /\ variant = 5
        /\ DoneOk(s) /\ reqs[s].req = [kind |-> "book", id |-> "2"]
        /\ \E i \in EntriesWithId(reqs[s].resp.body.authors, 2) :
              reqs[s].resp.body.authors[i].name = "Alyssa Wyatt"
        /\ EntriesWithId(RunAlone(variant, Store, [kind |-> "author", id |-> "2"]).body.books,
                         2) # {}
        /\ EntriesWithId(reqs[s].resp.body.authors, 3) = {}
        /\ EntriesWithId(RunAlone(variant, Store, [kind |-> "author", id |-> "3"]).body.books,
                         2) = {}

====
